---- MODULE Spec2Model ----
(***************************************************************************)
(* Model of script.js: the live search filter of the formula page, the     *)
(* derivation toggles, the keyboard shortcuts, the debounced history save, *)
(* the history store kept in localStorage, the re-typeset timers, the load *)
(* listener and the back-to-top button.                                    *)
(*                                                                         *)
(* A JavaScript string is modelled as a sequence of characters, each       *)
(* character a one-element TLA+ string ("a", " ", "U+1F53D" for an emoji   *)
(* code point).                                                            *)
(***************************************************************************)
EXTENDS Integers, Sequences, FiniteSets, TLC

\* ---------------------------------------------------------------- bounds

\* Number of distinct search terms of the history specifications.
MaxTerms == 12
\* Number of times an already saved term is saved again (history specifications).
MaxRepeats == 1
\* Number of re-typeset timers that may be pending at once.
MaxPending == 2
\* Size of the pool of timer handles.
MaxTimerIds == 3
\* Number of saveHistory calls in a run of SpecSave.
MaxCalls == 2

\* ---------------------------------------------------------- JS strings

Range(s) == {s[i] : i \in 1..Len(s)}

IsWhiteSpace(c) == c \in {" ", "\t", "\n"}

\* String.prototype.toLowerCase, character by character.
LowerChar(c) ==
    CASE c = "A" -> "a"
      [] c = "B" -> "b"
      [] OTHER -> c

toLowerCase(s) == [i \in 1..Len(s) |-> LowerChar(s[i])]

\* String.prototype.includes: q occurs in s at some offset.
includes(s, q) ==
    \E i \in 0..(Len(s) - Len(q)) : SubSeq(s, i + 1, i + Len(q)) = q

RECURSIVE trimStart(_)
trimStart(s) ==
    IF Len(s) > 0 /\ IsWhiteSpace(s[1]) THEN trimStart(Tail(s)) ELSE s

RECURSIVE trimEnd(_)
trimEnd(s) ==
    IF Len(s) > 0 /\ IsWhiteSpace(s[Len(s)])
    THEN trimEnd(SubSeq(s, 1, Len(s) - 1))
    ELSE s

\* String.prototype.trim.
trim(s) == trimEnd(trimStart(s))

\* ----------------------------------------------------------------- JSON

\* JSON.stringify of one string: quotes and backslashes are escaped.
RECURSIVE escapeChars(_)
escapeChars(s) ==
    IF Len(s) = 0 THEN <<>>
    ELSE (IF s[1] \in {"\"", "\\"} THEN <<"\\", s[1]>> ELSE <<s[1]>>)
         \o escapeChars(Tail(s))

quoteString(s) == <<"\"">> \o escapeChars(s) \o <<"\"">>

RECURSIVE joinQuoted(_)
joinQuoted(a) ==
    IF Len(a) = 0 THEN <<>>
    ELSE IF Len(a) = 1 THEN quoteString(a[1])
    ELSE quoteString(a[1]) \o <<",">> \o joinQuoted(Tail(a))

\* JSON.stringify of an array of strings.
JSON_stringify(a) == <<"[">> \o joinQuoted(a) \o <<"]">>

\* The scan of JSON.parse over the text of an array of strings, from position
\* i on: inString says whether i is inside a string literal, cur is the part
\* of that string read so far and acc the strings read before it.
RECURSIVE parseFrom(_, _, _, _, _)
parseFrom(s, i, inString, cur, acc) ==
    IF i > Len(s) THEN acc
    ELSE IF ~inString
         THEN IF s[i] = "\""
              THEN parseFrom(s, i + 1, TRUE, <<>>, acc)
              ELSE parseFrom(s, i + 1, FALSE, cur, acc)
    ELSE IF s[i] = "\\"
         THEN parseFrom(s, i + 2, TRUE, Append(cur, s[i + 1]), acc)
    ELSE IF s[i] = "\""
         THEN parseFrom(s, i + 1, FALSE, <<>>, Append(acc, cur))
    ELSE parseFrom(s, i + 1, TRUE, Append(cur, s[i]), acc)

\* JSON.parse of the text of an array of strings.
JSON_parse(s) == parseFrom(s, 1, FALSE, <<>>, <<>>)

\* ----------------------------------------------------------- the page

\* The formula cards and the categories of the page.
Cards == 1..3
Categories == 1..3

\* category.querySelectorAll('.formula-card'): category 3 holds no card.
cardsOf(category) ==
    CASE category = 1 -> {1, 2}
      [] category = 2 -> {3}
      [] OTHER -> {}

\* Cards of class "derivation" that hold a derivation-content region.
DerivationCards == {1, 3}
\* Cards that hold an example-content region.
ExampleCards == {2, 3}

\* Text of the h4 heading as written in the page.
headingText(card) ==
    CASE card = 1 -> <<"A", "b">>
      [] card = 2 -> <<"B">>
      [] OTHER -> <<"a", "A">>

\* Text of the card after its heading (derivation and example content included).
bodyText(card) ==
    CASE card = 1 -> <<"a">>
      [] card = 2 -> <<"b", "a">>
      [] OTHER -> <<>>

ICON_OPEN == <<" ", "U+1F53D">>
ICON_CLOSED == <<" ", "U+25B6", "U+FE0F">>
ICON_EXAMPLE == <<" ", "U+1F4DD">>

HISTORY_KEY == "math-formula-search-history"
MAX_HISTORY == 10

VARIABLES
    value,          \* searchBox.value
    hidden,         \* card -> the card carries class "hidden"
    catHidden,      \* category -> the category carries class "hidden"
    display,        \* derivation card -> derivationContent.style.display
    toggleIcon,     \* derivation card -> toggleIcon.textContent
    exampleDisplay, \* example card -> exampleContent.style.display
    hasMathJax,     \* window.MathJax is present
    typesetTimers,  \* number of pending re-typeset timers
    timers,         \* handles of the pending history-save timers
    searchTimeout,  \* the handle held by searchTimeout (0: undefined)
    localStorage,   \* key -> stored string
    focused,        \* the search box has the focus
    lastEvent,      \* the event handled by the last step
    arg,            \* the argument of the last saveHistory call
    wrote,          \* the last step called localStorage.setItem
    saveLog,        \* the terms written by saveHistory, oldest first
    clickParity,    \* card -> number of clicks on its heading, modulo 2
    typesetCalled,  \* the last step called MathJax.typesetPromise
    loaded,         \* the load event of the window has been handled
    notices,        \* number of completion notices written to the console
    loadTypesets,   \* typesetPromise calls made by the load listener
    pageYOffset,    \* window.pageYOffset
    scrollRequest,  \* the smooth scroll asked of the window ("none", "top")
    buttonDisplay,  \* backToTopButton.style.display
    buttonBackground, \* backToTopButton.style.background
    buttonTransform   \* backToTopButton.style.transform

\* The back-to-top button and the scroll position.
ambientVars == <<pageYOffset, scrollRequest, buttonDisplay, buttonBackground,
                 buttonTransform>>
\* The load listener and the console.
loadVars == <<loaded, notices, loadTypesets>>

pageVars == <<value, hidden, catHidden, display, toggleIcon, exampleDisplay,
              hasMathJax, typesetTimers, timers, searchTimeout, localStorage,
              focused, ambientVars, loadVars>>
vars == <<value, hidden, catHidden, display, toggleIcon, exampleDisplay,
          hasMathJax, typesetTimers, timers, searchTimeout, localStorage,
          focused, lastEvent, arg, wrote, saveLog, clickParity, typesetCalled,
          ambientVars, loadVars>>

\* ------------------------------------------------------- filter engine

\* h4.textContent: the heading with the icons appended to it at startup.
h4TextContent(card) ==
    headingText(card)
    \o (IF card \in DerivationCards THEN toggleIcon[card] ELSE <<>>)
    \o (IF card \in ExampleCards THEN ICON_EXAMPLE ELSE <<>>)

\* card.textContent: the heading followed by the rest of the card.
cardTextContent(card) == h4TextContent(card) \o bodyText(card)

\* cardMatches comparing the texts as written, not lower-cased.
cardMatches_CaseSensitive(card, searchTerm) ==
    LET title == h4TextContent(card)
        content == cardTextContent(card)
    IN  includes(title, searchTerm) \/ includes(content, searchTerm)

\* The test of the card loop; searchTerm is already lower-cased.
cardMatches(card, searchTerm) ==
    LET title == toLowerCase(h4TextContent(card))
        content == toLowerCase(cardTextContent(card))
    IN  includes(title, searchTerm) \/ includes(content, searchTerm)

\* filterCards that hides the cards that do not match and never shows a card
\* again.
filterCards_NeverShow(val) ==
    LET searchTerm == toLowerCase(val)
    IN  [card \in Cards |-> hidden[card] \/ ~cardMatches(card, searchTerm)]

\* formulaCards.forEach: the hidden class of every card after the loop.
filterCards(val) ==
    LET searchTerm == toLowerCase(val)
    IN  [card \in Cards |-> ~cardMatches(card, searchTerm)]

\* category.querySelectorAll('.formula-card:not(.hidden)')
visibleCards(category, hid) == {card \in cardsOf(category) : ~hid[card]}

\* filterCategories reading the card flags left by the previous pass.
filterCategories_Stale(hid) ==
    [category \in Categories |-> Cardinality(visibleCards(category, hidden)) = 0]

\* categories.forEach: the hidden class of every category after the loop,
\* hid being the card flags the loop reads.
filterCategories(hid) ==
    [category \in Categories |-> Cardinality(visibleCards(category, hid)) = 0]

\* ------------------------------------------------------- history store

getItem(key) == IF key \in DOMAIN localStorage THEN localStorage[key] ELSE <<>>

setItem(key, val) ==
    [k \in (DOMAIN localStorage) \cup {key} |->
        IF k = key THEN val ELSE localStorage[k]]

\* loadHistory: the stored array, [] when nothing (or "") is stored.
loadHistory ==
    LET history == getItem(HISTORY_KEY)
    IN  IF Len(history) > 0 THEN JSON_parse(history) ELSE <<>>

\* updatedHistory without the filter that removes the term.
updatedHistory_NoFilter(history, term) ==
    LET unshifted == <<term>> \o history
    IN  IF Len(unshifted) > MAX_HISTORY
        THEN SubSeq(unshifted, 1, MAX_HISTORY)
        ELSE unshifted

\* updatedHistory without the slice to MAX_HISTORY.
updatedHistory_NoSlice(history, term) ==
    <<term>> \o SelectSeq(history, LAMBDA item : item # term)

\* updatedHistory with push in place of unshift.
updatedHistory_Push(history, term) ==
    LET filtered == SelectSeq(history, LAMBDA item : item # term)
        pushed == Append(filtered, term)
    IN  IF Len(pushed) > MAX_HISTORY
        THEN SubSeq(pushed, 1, MAX_HISTORY)
        ELSE pushed

\* updatedHistory with slice(0, MAX_HISTORY - 1).
updatedHistory_ShortSlice(history, term) ==
    LET filtered == SelectSeq(history, LAMBDA item : item # term)
        unshifted == <<term>> \o filtered
    IN  IF Len(unshifted) > MAX_HISTORY
        THEN SubSeq(unshifted, 1, MAX_HISTORY - 1)
        ELSE unshifted

\* The array saveHistory builds from the loaded one: filter, unshift, slice.
updatedHistory(history, term) ==
    LET filtered == SelectSeq(history, LAMBDA item : item # term)
        unshifted == <<term>> \o filtered
    IN  IF Len(unshifted) > MAX_HISTORY
        THEN SubSeq(unshifted, 1, MAX_HISTORY)
        ELSE unshifted

\* saveHistory without the early return on a blank term.
saveHistory_NoGuard(term) ==
    /\ arg' = term
    /\ localStorage' =
         setItem(HISTORY_KEY, JSON_stringify(updatedHistory(loadHistory, term)))
    /\ wrote' = TRUE

\* saveHistory(term)
saveHistory(term) ==
    /\ arg' = term
    /\ IF Len(trim(term)) = 0
       THEN /\ localStorage' = localStorage
            /\ wrote' = FALSE
       ELSE /\ localStorage' =
                setItem(HISTORY_KEY, JSON_stringify(updatedHistory(loadHistory, term)))
            /\ wrote' = TRUE

\* --------------------------------------------------------------- timers

\* clearTimeout that cancels nothing.
clearTimeout_Noop(ts, handle) == ts

\* clearTimeout(handle) on the set ts of pending history-save timers.
clearTimeout(ts, handle) == ts \ {handle}

\* The handle setTimeout returns. Handles are only compared with each other,
\* so the smallest handle not pending stands for the browser's new handle.
newHandle(ts) ==
    CHOOSE id \in 1..MaxTimerIds :
        id \notin ts /\ \A j \in 1..(id - 1) : j \in ts

\* InputListeners without the listener that schedules the re-typeset.
InputListeners_NoTypeset(val) ==
    /\ Cardinality(clearTimeout(timers, searchTimeout)) < MaxTimerIds
    /\ timers' = clearTimeout(timers, searchTimeout)
                    \cup {newHandle(clearTimeout(timers, searchTimeout))}
    /\ searchTimeout' = newHandle(clearTimeout(timers, searchTimeout))
    /\ hidden' = filterCards(val)
    /\ catHidden' = filterCategories(hidden')
    /\ typesetTimers' = typesetTimers

\* The three 'input' listeners of the search box, run with the field holding val.
InputListeners(val) ==
    /\ hasMathJax => typesetTimers < MaxPending
    /\ Cardinality(clearTimeout(timers, searchTimeout)) < MaxTimerIds
    /\ timers' = clearTimeout(timers, searchTimeout)
                    \cup {newHandle(clearTimeout(timers, searchTimeout))}
    /\ searchTimeout' = newHandle(clearTimeout(timers, searchTimeout))
    /\ hidden' = filterCards(val)
    /\ catHidden' = filterCategories(hidden')
    /\ typesetTimers' = IF hasMathJax THEN typesetTimers + 1 ELSE typesetTimers

\* ------------------------------------------------------------- actions

\* The user edits the search field to v: the browser dispatches 'input'.
UserInput(v) ==
    /\ value' = v
    /\ InputListeners(v)
    /\ UNCHANGED <<display, toggleIcon, exampleDisplay, hasMathJax,
                   localStorage, focused, clickParity, ambientVars, loadVars>>

Input(v) ==
    /\ UserInput(v)
    /\ lastEvent' = "input"
    /\ arg' = <<>>
    /\ wrote' = FALSE
    /\ typesetCalled' = FALSE

\* ClearSearch that empties the field and dispatches no event.
ClearSearch_NoDispatch ==
    /\ value' = <<>>
    /\ UNCHANGED <<hidden, catHidden, typesetTimers, timers, searchTimeout>>

\* ClearSearch that dispatches the event and leaves the field as it is.
ClearSearch_KeepValue ==
    /\ value' = value
    /\ InputListeners(value')

\* The Escape branch of the keydown listener, taken with a non-empty field.
ClearSearch ==
    /\ value' = <<>>
    /\ InputListeners(value')

\* The keydown listener of the document.
Keydown(key, ctrlKey, metaKey) ==
    /\ focused' = IF (ctrlKey \/ metaKey) /\ key = "k" THEN TRUE ELSE focused
    /\ IF key = "Escape" /\ Len(value) > 0
       THEN /\ ClearSearch
            /\ lastEvent' = "escape"
       ELSE /\ UNCHANGED <<value, hidden, catHidden, typesetTimers, timers,
                           searchTimeout>>
            /\ lastEvent' = "keydown"
    /\ UNCHANGED <<display, toggleIcon, exampleDisplay, hasMathJax, localStorage,
                   clickParity, ambientVars, loadVars>>
    /\ arg' = <<>>
    /\ wrote' = FALSE
    /\ typesetCalled' = FALSE

\* HistoryTimerFires whose callback saves nothing.
HistoryTimerFires_NoSave ==
    /\ \E id \in timers : timers' = timers \ {id}
    /\ localStorage' = localStorage
    /\ arg' = <<>>
    /\ wrote' = FALSE
    /\ lastEvent' = "historyTimer"
    /\ typesetCalled' = FALSE
    /\ UNCHANGED <<value, hidden, catHidden, display, toggleIcon, exampleDisplay,
                   hasMathJax, typesetTimers, searchTimeout, focused,
                   clickParity, ambientVars, loadVars>>

\* The callback of a pending history-save timer runs.
HistoryTimerFires ==
    /\ \E id \in timers : timers' = timers \ {id}
    /\ IF Len(trim(value)) > 0
       THEN saveHistory(trim(value))
       ELSE /\ localStorage' = localStorage
            /\ arg' = <<>>
            /\ wrote' = FALSE
    /\ lastEvent' = "historyTimer"
    /\ typesetCalled' = FALSE
    /\ UNCHANGED <<value, hidden, catHidden, display, toggleIcon, exampleDisplay,
                   hasMathJax, typesetTimers, searchTimeout, focused,
                   clickParity, ambientVars, loadVars>>

\* The callback of a pending re-typeset timer runs: MathJax.typesetPromise().
TypesetTimerFires ==
    /\ typesetTimers > 0
    /\ typesetTimers' = typesetTimers - 1
    /\ typesetCalled' = TRUE
    /\ lastEvent' = "typesetTimer"
    /\ arg' = <<>>
    /\ wrote' = FALSE
    /\ UNCHANGED <<value, hidden, catHidden, display, toggleIcon, exampleDisplay,
                   hasMathJax, timers, searchTimeout, localStorage, focused,
                   clickParity, ambientVars, loadVars>>

\* ClickTitle that only ever collapses the derivation.
ClickTitle_OnlyCollapse(card) ==
    /\ IF card \in DerivationCards
       THEN /\ display' = [display EXCEPT ![card] = "none"]
            /\ toggleIcon' = [toggleIcon EXCEPT ![card] = ICON_CLOSED]
       ELSE UNCHANGED <<display, toggleIcon>>
    /\ clickParity' = [clickParity EXCEPT ![card] = 1 - @]
    /\ lastEvent' = "click"
    /\ arg' = <<>>
    /\ wrote' = FALSE
    /\ typesetCalled' = FALSE
    /\ UNCHANGED <<value, hidden, catHidden, exampleDisplay, hasMathJax,
                   typesetTimers, timers, searchTimeout, localStorage, focused,
                   ambientVars, loadVars>>

\* ClickTitle that toggles every derivation by the state of the clicked one.
ClickTitle_AllCards(card) ==
    /\ IF card \in DerivationCards
       THEN IF display[card] = "none"
            THEN /\ display' = [c \in DerivationCards |-> "block"]
                 /\ toggleIcon' = [c \in DerivationCards |-> ICON_OPEN]
            ELSE /\ display' = [c \in DerivationCards |-> "none"]
                 /\ toggleIcon' = [c \in DerivationCards |-> ICON_CLOSED]
       ELSE UNCHANGED <<display, toggleIcon>>
    /\ clickParity' = [clickParity EXCEPT ![card] = 1 - @]
    /\ lastEvent' = "click"
    /\ arg' = <<>>
    /\ wrote' = FALSE
    /\ typesetCalled' = FALSE
    /\ UNCHANGED <<value, hidden, catHidden, exampleDisplay, hasMathJax,
                   typesetTimers, timers, searchTimeout, localStorage, focused,
                   ambientVars, loadVars>>

\* A click on the heading of a card. Only the heading of a derivation card
\* carries a click listener; the heading of a card that holds only an example
\* has none.
ClickTitle(card) ==
    /\ IF card \in DerivationCards
       THEN IF display[card] = "none"
            THEN /\ display' = [display EXCEPT ![card] = "block"]
                 /\ toggleIcon' = [toggleIcon EXCEPT ![card] = ICON_OPEN]
            ELSE /\ display' = [display EXCEPT ![card] = "none"]
                 /\ toggleIcon' = [toggleIcon EXCEPT ![card] = ICON_CLOSED]
       ELSE UNCHANGED <<display, toggleIcon>>
    /\ clickParity' = [clickParity EXCEPT ![card] = 1 - @]
    /\ lastEvent' = "click"
    /\ arg' = <<>>
    /\ wrote' = FALSE
    /\ typesetCalled' = FALSE
    /\ UNCHANGED <<value, hidden, catHidden, exampleDisplay, hasMathJax,
                   typesetTimers, timers, searchTimeout, localStorage, focused,
                   ambientVars, loadVars>>

\* Load whose listener calls MathJax.typesetPromise() itself.
Load_Typesets ==
    /\ ~loaded
    /\ loaded' = TRUE
    /\ lastEvent' = "load"
    /\ arg' = <<>>
    /\ wrote' = FALSE
    /\ typesetCalled' = hasMathJax
    /\ loadTypesets' = IF hasMathJax THEN loadTypesets + 1 ELSE loadTypesets
    /\ UNCHANGED <<value, hidden, catHidden, display, toggleIcon, exampleDisplay,
                   hasMathJax, typesetTimers, timers, searchTimeout, localStorage,
                   focused, clickParity, ambientVars, notices>>

\* The load listener of the window: with MathJax present it registers the
\* callback of MathJax.startup.promise, and calls nothing else.
Load ==
    /\ ~loaded
    /\ loaded' = TRUE
    /\ lastEvent' = "load"
    /\ arg' = <<>>
    /\ wrote' = FALSE
    /\ typesetCalled' = FALSE
    /\ UNCHANGED <<value, hidden, catHidden, display, toggleIcon, exampleDisplay,
                   hasMathJax, typesetTimers, timers, searchTimeout, localStorage,
                   focused, clickParity, ambientVars, notices, loadTypesets>>

\* MathJax.startup.promise is resolved: the callback registered by the load
\* listener writes the completion notice.
StartupResolved ==
    /\ loaded
    /\ hasMathJax
    /\ notices = 0
    /\ notices' = notices + 1
    /\ lastEvent' = "startupResolved"
    /\ arg' = <<>>
    /\ wrote' = FALSE
    /\ typesetCalled' = FALSE
    /\ UNCHANGED <<value, hidden, catHidden, display, toggleIcon, exampleDisplay,
                   hasMathJax, typesetTimers, timers, searchTimeout, localStorage,
                   focused, clickParity, ambientVars, loaded, loadTypesets>>

\* buttonDisplayAt that shows the button from offset 300 on.
buttonDisplayAt_Inclusive(y) == IF y >= 300 THEN "block" ELSE "none"

\* The display the scroll listener gives the button at offset y.
buttonDisplayAt(y) == IF y > 300 THEN "block" ELSE "none"

\* The scroll listener of the window, the page being scrolled to offset y.
Scroll(y) ==
    /\ pageYOffset' = y
    /\ scrollRequest' = IF y = 0 THEN "none" ELSE scrollRequest
    /\ buttonDisplay' = buttonDisplayAt(y)
    /\ lastEvent' = "scroll"
    /\ arg' = <<>>
    /\ wrote' = FALSE
    /\ typesetCalled' = FALSE
    /\ UNCHANGED <<value, hidden, catHidden, display, toggleIcon, exampleDisplay,
                   hasMathJax, typesetTimers, timers, searchTimeout, localStorage,
                   focused, clickParity, buttonBackground, buttonTransform,
                   loadVars>>

\* The click listener of the button: window.scrollTo({top: 0, smooth}).
BackToTopClick ==
    /\ scrollRequest' = "top"
    /\ lastEvent' = "backToTopClick"
    /\ arg' = <<>>
    /\ wrote' = FALSE
    /\ typesetCalled' = FALSE
    /\ UNCHANGED <<value, hidden, catHidden, display, toggleIcon, exampleDisplay,
                   hasMathJax, typesetTimers, timers, searchTimeout, localStorage,
                   focused, clickParity, pageYOffset, buttonDisplay,
                   buttonBackground, buttonTransform, loadVars>>

\* The mouseenter listener of the button.
MouseEnter ==
    /\ buttonBackground' = "#1e40af"
    /\ buttonTransform' = "translateY(-3px)"
    /\ lastEvent' = "mouseenter"
    /\ arg' = <<>>
    /\ wrote' = FALSE
    /\ typesetCalled' = FALSE
    /\ UNCHANGED <<value, hidden, catHidden, display, toggleIcon, exampleDisplay,
                   hasMathJax, typesetTimers, timers, searchTimeout, localStorage,
                   focused, clickParity, pageYOffset, scrollRequest,
                   buttonDisplay, loadVars>>

\* The mouseleave listener of the button.
MouseLeave ==
    /\ buttonBackground' = "#2563eb"
    /\ buttonTransform' = "translateY(0)"
    /\ lastEvent' = "mouseleave"
    /\ arg' = <<>>
    /\ wrote' = FALSE
    /\ typesetCalled' = FALSE
    /\ UNCHANGED <<value, hidden, catHidden, display, toggleIcon, exampleDisplay,
                   hasMathJax, typesetTimers, timers, searchTimeout, localStorage,
                   focused, clickParity, pageYOffset, scrollRequest,
                   buttonDisplay, loadVars>>

\* A call of saveHistory(term).
SaveCall(term) ==
    /\ saveHistory(term)
    /\ lastEvent' = "save"
    /\ typesetCalled' = FALSE
    /\ UNCHANGED <<value, hidden, catHidden, display, toggleIcon, exampleDisplay,
                   hasMathJax, typesetTimers, timers, searchTimeout, focused,
                   clickParity, ambientVars, loadVars>>

\* saveLog records every term saveHistory wrote.
Log == saveLog' = IF wrote' THEN Append(saveLog, arg') ELSE saveLog

\* ------------------------------------------------- the page (Spec)

\* What the user types into the search field.
Values == {<<>>, <<" ">>, <<"A">>, <<"b", " ">>, <<"U+25B6">>}

Keys == {"k", "Escape"}

\* The page once DOMContentLoaded has run and the history closure is set up.
InitPage ==
    /\ value = <<>>
    /\ hidden = [card \in Cards |-> FALSE]
    /\ catHidden = [category \in Categories |-> FALSE]
    /\ display = [card \in DerivationCards |-> "block"]
    /\ toggleIcon = [card \in DerivationCards |-> ICON_OPEN]
    /\ exampleDisplay = [card \in ExampleCards |-> "block"]
    /\ typesetTimers = 0
    /\ timers = {}
    /\ searchTimeout = 0
    /\ focused = FALSE
    /\ lastEvent = "DOMContentLoaded"
    /\ arg = <<>>
    /\ wrote = FALSE
    /\ saveLog = <<>>
    /\ clickParity = [card \in Cards |-> 0]
    /\ typesetCalled = FALSE
    /\ loaded = FALSE
    /\ notices = 0
    /\ loadTypesets = 0
    /\ pageYOffset = 0
    /\ scrollRequest = "none"
    /\ buttonDisplay = "none"
    /\ buttonBackground = "#2563eb"
    /\ buttonTransform = ""

\* localStorage with nothing stored under any key.
EmptyStorage == [k \in {} |-> <<>>]

\* A first visit: nothing stored yet; MathJax may or may not have loaded.
Init ==
    /\ InitPage
    /\ hasMathJax \in BOOLEAN
    /\ localStorage = EmptyStorage

Next ==
    \/ \E v \in Values : Input(v) /\ UNCHANGED saveLog
    \/ \E key \in Keys, ctrlKey \in BOOLEAN, metaKey \in BOOLEAN :
          Keydown(key, ctrlKey, metaKey) /\ UNCHANGED saveLog
    \/ HistoryTimerFires /\ UNCHANGED saveLog
    \/ TypesetTimerFires /\ UNCHANGED saveLog
    \/ \E card \in Cards : ClickTitle(card) /\ UNCHANGED saveLog

Spec == Init /\ [][Next]_vars

\* ------------------------------------- the history store (SpecHist)

Letters ==
    <<"a", "b", "c", "d", "e", "f", "g", "h", "i", "j", "k", "l", "m",
      "n", "o", "p", "q", "r", "s", "t", "u", "v", "w", "x", "y", "z">>

\* The n-th search term of the history specifications; the first two hold
\* the characters JSON escapes.
Term(n) ==
    IF n = 1 THEN <<"\"">>
    ELSE IF n = 2 THEN <<"a", "\\">>
    ELSE <<Letters[n]>>

Padded(term) == <<" ">> \o term \o <<" ">>

\* The next term that was never saved.
freshTerm == Term(Cardinality(Range(saveLog)) + 1)

\* The bounds leave room for saveHistory(term) to write.
LogRoom(term) ==
    \/ Len(trim(term)) = 0
    \/ /\ term \notin Range(saveLog)
       /\ Cardinality(Range(saveLog)) < MaxTerms
    \/ /\ term \in Range(saveLog)
       /\ Len(saveLog) - Cardinality(Range(saveLog)) < MaxRepeats

\* The oldest term of the stored history.
oldestStored ==
    IF Len(loadHistory) = 0 THEN {} ELSE {loadHistory[Len(loadHistory)]}

\* What the user types: nothing, blanks, a new term between blanks, an old term.
TypedValues == {<<>>, <<" ">>, Padded(freshTerm)} \cup oldestStored

\* The arguments saveHistory is called with: blanks, or the trimmed content of
\* the field as at its one call site.
SaveArgs == {<<>>, <<" ">>, trim(value)}

\* A first visit to a page without MathJax.
InitHist ==
    /\ InitPage
    /\ hasMathJax = FALSE
    /\ localStorage = EmptyStorage

NextHist ==
    \/ \E v \in TypedValues : Input(v) /\ Log
    \/ LogRoom(trim(value)) /\ HistoryTimerFires /\ Log
    \/ \E term \in SaveArgs : LogRoom(term) /\ SaveCall(term) /\ Log

SpecHist == InitHist /\ [][NextHist]_vars

\* ------------------------------------------ saveHistory alone (SpecSave)

AllTerms == [n \in 1..MaxTerms |-> Term(n)]

\* An earlier visit may have left nothing, or any run of at most MAX_HISTORY
\* terms of AllTerms that starts at one of its first three terms.
InitSave ==
    /\ InitPage
    /\ hasMathJax = FALSE
    /\ \/ localStorage = EmptyStorage
       \/ \E i \in 1..3, j \in 1..MaxTerms :
             /\ i <= j
             /\ j - i < MAX_HISTORY
             /\ localStorage =
                  [k \in {HISTORY_KEY} |-> JSON_stringify(SubSeq(AllTerms, i, j))]

\* The arguments of the calls: every term, padded terms, blanks.
CallArgs ==
    {Term(n) : n \in 1..MaxTerms}
        \cup {Padded(Term(n)) : n \in {2, 3}}
        \cup {<<>>, <<" ">>, <<" ", "\t">>}

NextSave ==
    \E term \in CallArgs :
        /\ Len(saveLog) < MaxCalls
        /\ SaveCall(term)
        /\ Log

SpecSave == InitSave /\ [][NextSave]_vars

\* ------------------------------- toggles and the button (SpecAmbient)

\* Scroll offsets on both sides of the threshold of the scroll listener.
ScrollOffsets == {0, 299, 300, 301, 600}

NextAmbient ==
    \/ \E y \in ScrollOffsets : Scroll(y) /\ UNCHANGED saveLog
    \/ BackToTopClick /\ UNCHANGED saveLog
    \/ MouseEnter /\ UNCHANGED saveLog
    \/ MouseLeave /\ UNCHANGED saveLog
    \/ \E card \in Cards : ClickTitle(card) /\ UNCHANGED saveLog

SpecAmbient == Init /\ [][NextAmbient]_vars

\* --------------------------------- timers under fairness (SpecLive)

\* The values typed: empty, blank, a term, and a term with trailing blank.
LiveValues == {<<>>, <<" ">>, <<"A">>, <<"b", " ">>}

NextLive ==
    \/ \E v \in LiveValues : Input(v) /\ UNCHANGED saveLog
    \/ \E key \in Keys : Keydown(key, FALSE, FALSE) /\ UNCHANGED saveLog
    \/ HistoryTimerFires /\ UNCHANGED saveLog
    \/ TypesetTimerFires /\ UNCHANGED saveLog
    \/ Load /\ UNCHANGED saveLog
    \/ StartupResolved /\ UNCHANGED saveLog

\* The event loop runs the callback of every timer that stays pending.
SpecLive ==
    /\ Init
    /\ [][NextLive]_vars
    /\ WF_vars(HistoryTimerFires /\ UNCHANGED saveLog)
    /\ WF_vars(TypesetTimerFires /\ UNCHANGED saveLog)

\* --------------------------------------------------------------- claims

\* The last step ran a filter pass.
FilterPassed == lastEvent \in {"input", "escape"}

\* C1: after every filter pass an entry is visible iff the lower-cased query
\* is a substring of its lower-cased title or of its lower-cased full text.
C1_EntryVisibleIffMatch ==
    FilterPassed =>
        \A e \in Cards :
            (~hidden[e]) <=>
                \/ includes(toLowerCase(h4TextContent(e)), toLowerCase(value))
                \/ includes(toLowerCase(cardTextContent(e)), toLowerCase(value))

\* A pass with the query "b " shows card 1, whose text holds "b " only by
\* case folding and the icon's blank, and hides card 3.
C1_Witness ==
    /\ lastEvent = "input"
    /\ value = <<"b", " ">>
    /\ ~hidden[1]
    /\ ~hidden[2]
    /\ hidden[3]

\* C2: after every filter pass a category, empty ones included, is hidden iff
\* every entry it contains is hidden, the entry flags being those of this pass.
C2_CategoryHiddenIffAllHidden ==
    FilterPassed =>
        \A c \in Categories :
            catHidden[c] <=> (\A e \in cardsOf(c) : hidden[e])

\* A pass that hides one category with its only entry and keeps another.
C2_Witness ==
    /\ FilterPassed
    /\ catHidden[2]
    /\ hidden[3]
    /\ ~catHidden[1]
    /\ catHidden[3]

\* C3 as claimed: a pass with the empty query leaves every entry and every
\* category visible, as at startup.
C3_EmptyQueryShowsAll ==
    (FilterPassed /\ value = <<>>) =>
        /\ \A e \in Cards : ~hidden[e]
        /\ \A c \in Categories : ~catHidden[c]

\* C3 amended: a pass with the empty query leaves every entry visible and
\* every category that contains an entry visible; a category without entries
\* is hidden by the pass.
C3_EmptyQueryShowsAllNonEmpty ==
    (FilterPassed /\ value = <<>>) =>
        /\ \A e \in Cards : ~hidden[e]
        /\ \A c \in Categories : catHidden[c] <=> (cardsOf(c) = {})

\* Escape has emptied a field whose query had hidden entries.
C3_Witness ==
    /\ lastEvent = "escape"
    /\ value = <<>>
    /\ \A e \in Cards : ~hidden[e]
    /\ ~catHidden[1]
    /\ ~catHidden[2]

\* h without the elements equal to t, in their order.
RECURSIVE Without(_, _)
Without(h, t) ==
    IF Len(h) = 0 THEN <<>>
    ELSE IF h[1] = t THEN Without(Tail(h), t)
    ELSE <<h[1]>> \o Without(Tail(h), t)

\* C4: save(t) with t not blank leaves the persisted history equal to t, then
\* the stored elements other than t in their order, cut to the first 10.
C4_SaveResult ==
    [][(lastEvent' = "save" /\ Len(trim(arg')) > 0) =>
          \E kept \in {Without(loadHistory, arg')} :
              /\ HISTORY_KEY \in DOMAIN localStorage'
              /\ \E after \in {JSON_parse(localStorage'[HISTORY_KEY])} :
                    /\ Len(after) = (IF Len(kept) < 9 THEN Len(kept) + 1 ELSE 10)
                    /\ after[1] = arg'
                    /\ \A i \in 2..Len(after) : after[i] = kept[i - 1]]_vars

\* Terms 2..11 were stored and term 12 was saved: term 11 fell off the end.
C4_Witness ==
    /\ lastEvent = "save"
    /\ Len(saveLog) = 1
    /\ arg = Term(12)
    /\ loadHistory = <<Term(12)>> \o SubSeq(AllTerms, 2, 10)

\* The place of the last save of term in saveLog, 0 when it was never saved.
LastSave(term) ==
    IF term \in Range(saveLog)
    THEN CHOOSE i \in 1..Len(saveLog) :
            /\ saveLog[i] = term
            /\ \A j \in (i + 1)..Len(saveLog) : saveLog[j] # term
    ELSE 0

\* C5: from an absent stored value, the persisted history always has at most
\* 10 elements, no term twice, and is ordered most recently saved first.
C5_HistoryInvariant ==
    LET h == loadHistory
    IN  /\ Len(h) <= 10
        /\ \A i, j \in 1..Len(h) : i # j => h[i] # h[j]
        /\ \A i \in 1..Len(h) : LastSave(h[i]) > 0
        /\ \A i, j \in 1..Len(h) : i < j => LastSave(h[i]) > LastSave(h[j])

\* The history is full, a term was evicted and a term was saved twice.
C5_Witness ==
    /\ Len(loadHistory) = 10
    /\ Cardinality(Range(saveLog)) > 10
    /\ Len(saveLog) > Cardinality(Range(saveLog))
    /\ lastEvent = "historyTimer"

\* C6: after n > 10 saves of pairwise distinct terms the persisted history is
\* the 10 most recently saved terms, most recent first.
C6_KeepsTenMostRecent ==
    LET n == Len(saveLog)
    IN  (n > 10 /\ Cardinality(Range(saveLog)) = n) =>
            loadHistory = [i \in 1..10 |-> saveLog[n + 1 - i]]

\* Eleven distinct terms were saved: the first one is gone.
C6_Witness ==
    /\ Len(saveLog) = 11
    /\ Cardinality(Range(saveLog)) = 11
    /\ saveLog[1] \notin Range(loadHistory)
    /\ saveLog[2] \in Range(loadHistory)

\* C7: saving the same term twice in a row leaves the persisted history of
\* the first save, with the term in it once.
C7_SaveIdempotent ==
    [][(lastEvent = "save" /\ wrote /\ lastEvent' = "save" /\ arg' = arg) =>
          /\ localStorage' = localStorage
          /\ SelectSeq(loadHistory', LAMBDA item : item = arg') = <<arg'>>]_vars

\* From the empty history, x saved twice: the history is [x].
C7_Witness ==
    /\ lastEvent = "save"
    /\ Len(saveLog) = 2
    /\ saveLog[1] = saveLog[2]
    /\ loadHistory = <<saveLog[1]>>

\* C8: save of a blank term, and a history-save timer firing on a blank field,
\* leave the persisted history unchanged and write nothing.
C8_BlankSaveIsNoop ==
    [][(\/ lastEvent' = "save" /\ Len(trim(arg')) = 0
        \/ lastEvent' = "historyTimer" /\ Len(trim(value)) = 0) =>
          /\ localStorage' = localStorage
          /\ ~wrote']_vars

\* The timer fired on a field of blanks, with a history stored.
C8_Witness ==
    /\ lastEvent = "historyTimer"
    /\ Len(value) > 0
    /\ Len(trim(value)) = 0
    /\ Len(loadHistory) > 0
    /\ ~wrote

\* C9: at most one history-save timer is pending; an input event leaves its
\* own timer as the only pending one and writes nothing; a write happens only
\* when the timer fires, and leaves no timer pending.
C9_Debounce ==
    /\ [](Cardinality(timers) <= 1)
    /\ [][lastEvent' \in {"input", "escape"} =>
            /\ timers' = {searchTimeout'}
            /\ ~wrote'
            /\ localStorage' = localStorage]_vars
    /\ [][wrote' => (lastEvent' = "historyTimer" /\ timers' = {})]_vars

\* The timer of the last input has fired and written a second term.
C9_Witness ==
    /\ lastEvent = "historyTimer"
    /\ wrote
    /\ timers = {}
    /\ Len(loadHistory) = 2

\* C10: Escape on a non-empty field is the step of the user emptying the field
\* and an input event being dispatched.
C10_EscapeIsEmptyInput ==
    [][lastEvent' = "escape" => (Len(value) > 0 /\ UserInput(<<>>))]_vars

\* Escape has emptied the field, restarted the history-save timer and
\* scheduled a re-typeset.
C10_Witness ==
    /\ lastEvent = "escape"
    /\ value = <<>>
    /\ searchTimeout \in timers
    /\ typesetTimers > 0
    /\ Len(loadHistory) > 0

\* C11: every derivation section starts expanded and each click on the heading
\* of its card flips it, so it is expanded iff the number of clicks so far is
\* even; and in every reachable state the icon of the heading is the open
\* icon iff the section is expanded and the closed icon iff it is collapsed.
C11_DerivationToggle ==
    \A card \in DerivationCards :
        /\ display[card] \in {"block", "none"}
        /\ display[card] = "block" <=> clickParity[card] = 0
        /\ toggleIcon[card] = ICON_OPEN <=> display[card] = "block"
        /\ toggleIcon[card] = ICON_CLOSED <=> display[card] = "none"

\* A click has just expanded the derivation of card 1 again while that of
\* card 3 is collapsed.
C11_Witness ==
    /\ lastEvent = "click"
    /\ clickParity[2] = 0
    /\ display[1] = "block" /\ toggleIcon[1] = ICON_OPEN
    /\ display[3] = "none" /\ toggleIcon[3] = ICON_CLOSED

\* C12: every example section is a toggle of the same kind: it starts
\* expanded, and it is expanded iff the number of clicks on the heading of its
\* card so far is even (one click collapses it, a second expands it again).
C12_ExampleToggle ==
    \A card \in ExampleCards :
        exampleDisplay[card] = "block" <=> clickParity[card] = 0

\* C13: a later input event supersedes the pending re-typeset timer of an
\* earlier one, so at most one re-typeset timer is pending in any reachable
\* state (and input events within one deferral window end in one call).
C13_OneTypesetTimer == typesetTimers <= 1

\* C14: with MathJax present every filter pass is eventually followed by a
\* call of MathJax.typesetPromise; with MathJax absent no re-typeset timer is
\* ever pending, typesetPromise is never called, and a pass still hides
\* exactly the cards that do not match.
C14_TypesetAfterFilter ==
    /\ []((hasMathJax /\ FilterPassed) => <>typesetCalled)
    /\ [](~hasMathJax => (typesetTimers = 0 /\ ~typesetCalled))
    /\ []((~hasMathJax /\ FilterPassed) =>
            \A card \in Cards :
                hidden[card] <=> ~cardMatches(card, toLowerCase(value)))

\* The re-typeset timer of a pass that hid a card has fired, no other being
\* pending.
C14_Witness ==
    /\ hasMathJax
    /\ lastEvent = "typesetTimer"
    /\ typesetCalled
    /\ typesetTimers = 0
    /\ hidden[3]

\* C15 as stated: with MathJax present the handling of the load event calls
\* MathJax.typesetPromise exactly once, and the completion notice is written
\* after that call.
C15_TypesetOnLoad ==
    (hasMathJax /\ notices > 0) => loadTypesets = 1

\* C15, amended: the load listener and the callback it registers never call
\* MathJax.typesetPromise and schedule no re-typeset; the completion notice is
\* written at most once, by the callback of MathJax.startup.promise, only
\* after the load event and only with MathJax present.
C15_LoadOnlyLogs ==
    /\ [](loadTypesets = 0)
    /\ [](notices <= 1)
    /\ [](notices > 0 => (loaded /\ hasMathJax))
    /\ [][lastEvent' \in {"load", "startupResolved"} =>
            /\ ~typesetCalled'
            /\ typesetTimers' = typesetTimers]_vars
    /\ [][notices' # notices =>
            (lastEvent' = "startupResolved" /\ notices' = notices + 1)]_vars

\* The notice has been written while a re-typeset timer of a filter pass is
\* still pending.
C15_Witness ==
    /\ hasMathJax
    /\ loaded
    /\ notices = 1
    /\ lastEvent = "startupResolved"
    /\ typesetTimers > 0

C19_EscapedTermNotSaved ==
    /\ [][lastEvent' = "input" => localStorage' = localStorage]_vars
    /\ [][lastEvent' = "escape" =>
            /\ value' = <<>>
            /\ timers' = {searchTimeout'}
            /\ localStorage' = localStorage]_vars
    /\ [][(lastEvent' = "historyTimer" /\ value = <<>>) =>
            /\ ~wrote'
            /\ localStorage' = localStorage]_vars
    /\ [][(lastEvent = "escape" /\ lastEvent' = "historyTimer") =>
            /\ timers' = {}
            /\ localStorage' = localStorage]_vars

\* After a first term was stored, the timer has fired on the emptied field and
\* stored nothing more; the re-typesets of the two input events are pending.
C19_Witness ==
    /\ lastEvent = "historyTimer"
    /\ value = <<>>
    /\ ~wrote
    /\ timers = {}
    /\ typesetTimers = 2
    /\ Len(loadHistory) = 1

\* The text of a card as it is at startup, every derivation expanded.
startupTextContent(card) ==
    headingText(card)
    \o (IF card \in DerivationCards THEN ICON_OPEN ELSE <<>>)
    \o (IF card \in ExampleCards THEN ICON_EXAMPLE ELSE <<>>)
    \o bodyText(card)

\* C20: the result of a filter pass does not depend on which headings were
\* clicked: after every pass the hidden flag of each card is the one the pass
\* gives with every section expanded, the texts matched being those of startup.
C20_FilterIgnoresToggles ==
    FilterPassed =>
        \A card \in Cards :
            hidden[card] <=>
                ~includes(toLowerCase(startupTextContent(card)), toLowerCase(value))

\* C18: if input events stop while the field holds a value whose trimmed form
\* is not empty, then from some point on the first element of the stored
\* history is that trimmed value; and whatever a timer stores is the trimmed
\* value of the field, the value of the last input event.
C18_SaveLiveness ==
    /\ (<>[](~FilterPassed /\ Len(trim(value)) > 0)) =>
            <>[](/\ Len(loadHistory) > 0
                 /\ loadHistory[1] = trim(value))
    /\ [][wrote' =>
            /\ lastEvent' = "historyTimer"
            /\ value' = value
            /\ arg' = trim(value)
            /\ \E after \in {JSON_parse(localStorage'[HISTORY_KEY])} :
                  /\ Len(after) > 0
                  /\ after[1] = trim(value)]_vars

\* The timer of the last input has stored "b", the trimmed form of the value
\* "b " of the field, in front of an older term.
C18_Witness ==
    /\ lastEvent = "historyTimer"
    /\ wrote
    /\ value = <<"b", " ">>
    /\ arg = <<"b">>
    /\ timers = {}
    /\ Len(loadHistory) = 2
    /\ loadHistory[1] = <<"b">>

====
